---- MODULE Spec2Model ----
(***************************************************************************)
(* Model of headers/stamp.h: the STAMP (RFC 8762) session-reflector        *)
(* helpers timestamp / untimestamp (NTP codec), for_me (frame classifier)  *)
(* and pkt_turnaround (address swap + redirect).                           *)
(*                                                                         *)
(* Numbers wider than 31 bits are kept as sequences of base-256 digits,    *)
(* least significant digit first ("digits"): a uint64_t is 8 digits, a     *)
(* uint32_t is 4.  Memory (struct fields, frame bytes) is kept as          *)
(* sequences of bytes in address order ("raw bytes").                      *)
(***************************************************************************)
EXTENDS Integers, Sequences, FiniteSets

VARIABLES
    host,       \* byte order of the CPU running the program: "LE" or "BE"
    \* ---- codec (timestamp / untimestamp) ----
    clock,      \* value bpf_ktime_get_tai_ns() returns now (uint64 digits)
    cpc,        \* position of the stamping sequence
    rx_utns,    \* clock value read by the receive-side timestamp() call
    rx_ts,      \* struct ntp_ts written by the receive-side call (raw bytes)
    tx_utns,    \* clock value read by the transmit-side timestamp() call
    tx_ts,      \* struct ntp_ts written by the transmit-side call (raw bytes)
    rx_res,     \* untimestamp(&rx_ts)
    tx_res,     \* untimestamp(&tx_ts)
    \* ---- frame (for_me / pkt_turnaround) ----
    pkt,        \* the frame: raw bytes data .. data_end
    skb_protocol, \* skb->protocol: raw bytes of the __be16 field
    ifindex,    \* skb->ifindex
    pc,         \* position inside the running function, "idle" between calls
    data_end,   \* local data_end - data captured at function entry
    iph_proto,  \* value read from iph->protocol by for_me
    src_ip,     \* local src_ip of pkt_turnaround (raw bytes of the uint32_t)
    dest_ip,    \* local dest_ip of pkt_turnaround
    ret,        \* return value of the last finished call
    last,       \* which function finished last: "none", "for_me", "turn"
    redirect,   \* ifindex recorded by bpf_redirect, 0 if none
    \* ---- history of the running call, for the properties ----
    orig,       \* the frame as it arrived
    nturn,      \* number of pkt_turnaround calls that returned a redirect
    validated,  \* number of frame bytes the checks on this path have established
    readEnd,    \* 1 + highest frame offset read directly on this path
    wrote,      \* the running/last pkt_turnaround call has stored into the frame
    entry       \* the frame as it was when the running/last call started

codecVars == <<clock, cpc, rx_utns, rx_ts, tx_utns, tx_ts, rx_res, tx_res>>
frameVars == <<pkt, skb_protocol, ifindex, pc, data_end, iph_proto, src_ip, dest_ip,
               ret, last, redirect, orig, nturn, validated, readEnd, wrote, entry>>
vars == <<host, codecVars, frameVars>>

Hosts == {"LE", "BE"}

-----------------------------------------------------------------------------
(* Fixed-width unsigned arithmetic on digits.                              *)

RECURSIVE FromNat(_, _)
\* the w-digit representation of n (n < 2^31), truncated to w digits
FromNat(n, w) == IF w = 0 THEN <<>> ELSE <<n % 256>> \o FromNat(n \div 256, w - 1)

RECURSIVE ToNat(_)
\* the value of digits a; only used where the value is below 2^31
ToNat(a) == IF a = <<>> THEN 0 ELSE a[1] + 256 * ToNat(Tail(a))

Reverse(s) == [i \in 1..Len(s) |-> s[Len(s) + 1 - i]]

RECURSIVE AddC(_, _, _, _)
AddC(a, b, i, c) ==
    IF i > Len(a) THEN <<>>
    ELSE LET s == a[i] + b[i] + c
         IN  <<s % 256>> \o AddC(a, b, i + 1, s \div 256)

\* a + b modulo 2^(8*Len(a)); a and b have the same width
Add(a, b) == AddC(a, b, 1, 0)

RECURSIVE SubB(_, _, _, _)
SubB(a, b, i, brw) ==
    IF i > Len(a) THEN <<>>
    ELSE LET d == a[i] - b[i] - brw
         IN  <<d % 256>> \o SubB(a, b, i + 1, IF d < 0 THEN 1 ELSE 0)

\* a - b modulo 2^(8*Len(a)) (unsigned wrap-around)
Sub(a, b) == SubB(a, b, 1, 0)

RECURSIVE MulC(_, _, _, _)
MulC(a, m, i, c) ==
    IF i > Len(a) THEN <<>>
    ELSE LET p == a[i] * m + c
         IN  <<p % 256>> \o MulC(a, m, i + 1, p \div 256)

\* a * m modulo 2^(8*Len(a)), for a small multiplier m (m < 2^22)
Mul(a, m) == MulC(a, m, 1, 0)

RECURSIVE DivR(_, _, _, _)
DivR(a, d, i, r) ==
    IF i = 0 THEN <<>>
    ELSE LET cur == r * 256 + a[i]
         IN  DivR(a, d, i - 1, cur % d) \o <<cur \div d>>

\* floor(a / d) for a small divisor d (d < 2^22)
Div(a, d) == DivR(a, d, Len(a), 0)

RECURSIVE LessFrom(_, _, _)
LessFrom(a, b, i) ==
    IF i = 0 THEN FALSE
    ELSE IF a[i] # b[i] THEN a[i] < b[i]
    ELSE LessFrom(a, b, i - 1)

\* a < b as unsigned numbers of the same width
Less(a, b) == LessFrom(a, b, Len(a))
Leq(a, b) == ~Less(b, a)

U64(n) == FromNat(n, 8)
Zero64 == U64(0)

\* x * 1000000000 and x / 1000000000, x % 1000000000 in uint64_t arithmetic
MulNs(x) == Mul(Mul(Mul(x, 1000), 1000), 1000)
DivNs(x) == Div(Div(Div(x, 1000), 1000), 1000)
ModNs(x) == Sub(x, MulNs(DivNs(x)))

\* (uint32_t) x and (uint64_t) y
Trunc32(x) == SubSeq(x, 1, 4)
Widen64(y) == y \o <<0, 0, 0, 0>>

-----------------------------------------------------------------------------
(* Byte order.  A uint32_t/uint16_t VALUE is digits; what lies in memory   *)
(* is raw bytes in address order, and depends on the host.                 *)

\* the raw bytes a host keeps for the value v, and the value it reads back
Store(h, v) == IF h = "LE" THEN v ELSE Reverse(v)
Load(h, raw) == IF h = "LE" THEN raw ELSE Reverse(raw)

\* bpf_htonl / bpf_ntohl: byte swap on a little-endian host, identity otherwise
bpf_htonl(h, v) == IF h = "LE" THEN Reverse(v) ELSE v
bpf_ntohl(h, v) == IF h = "LE" THEN Reverse(v) ELSE v

\* bpf_htons / bpf_ntohs on a 16-bit value kept as an integer
Bswap16(x) == (x % 256) * 256 + (x \div 256)
bpf_htons(h, x) == IF h = "LE" THEN Bswap16(x) ELSE x
bpf_ntohs(h, x) == IF h = "LE" THEN Bswap16(x) ELSE x

\* the uint16_t a host reads from two raw bytes
Load16(h, raw) == IF h = "LE" THEN raw[1] + 256 * raw[2] ELSE raw[1] * 256 + raw[2]

-----------------------------------------------------------------------------
(* NTP conversion: timestamp() and untimestamp().                          *)

\* 2208988800, seconds from the NTP epoch (1900) to the Unix epoch (1970)
NTP_OFFSET == Add(Mul(U64(2208988), 1000), U64(800))

\* the uint64_t locals of timestamp() after line 26, for the clock value utns
ts_ntps(utns) == Add(DivNs(utns), NTP_OFFSET)
ts_ntpf(utns) == Div(Mul(ModNs(utns), 1000), 232)

\* what timestamp() leaves in *arg on host h when the clock reads utns
timestamp(h, utns) ==
    [ntp_secs  |-> Store(h, bpf_htonl(h, Trunc32(ts_ntps(utns)))),
     ntp_fracs |-> Store(h, bpf_htonl(h, Trunc32(ts_ntpf(utns))))]

\* what untimestamp() returns on host h for *arg
untimestamp(h, arg) ==
    LET unix_s0  == Widen64(bpf_ntohl(h, Load(h, arg.ntp_secs)))
        unix_ns0 == Widen64(bpf_ntohl(h, Load(h, arg.ntp_fracs)))
        unix_s   == Sub(unix_s0, NTP_OFFSET)
        unix_ns  == Div(Mul(unix_ns0, 232), 1000)
        res      == MulNs(unix_s)
    IN  Add(res, unix_ns)

NoTs == [ntp_secs |-> <<0, 0, 0, 0>>, ntp_fracs |-> <<0, 0, 0, 0>>]

\* ---- inputs of the codec specification ----
RemWindow == 3

\* the clock value of s seconds and r nanoseconds
ClockOf(s, r) == Add(MulNs(U64(s)), U64(r))

\* the representable domain: seconds + epoch offset fits in 32 bits
Representable(utns) == SubSeq(ts_ntps(utns), 5, 8) = <<0, 0, 0, 0>>

SecSamples == {0, 1, 1700000000, 2085978495, 2085978496}
RemBases == {0, 230, 499999768, 996432410, 999999999 - RemWindow}
RemSamples == {b + d : b \in RemBases, d \in 0..RemWindow}
ClockSamples ==
    {c \in {ClockOf(s, r) : s \in SecSamples, r \in RemSamples} : Representable(c)}
TickDeltas == {0, 1, 232, 3567590, 1000000000}

FrameOff ==
    /\ pkt = <<>> /\ skb_protocol = <<0, 0>> /\ ifindex = 0 /\ pc = "off"
    /\ data_end = 0 /\ iph_proto = 0 /\ src_ip = <<0, 0, 0, 0>> /\ dest_ip = <<0, 0, 0, 0>>
    /\ ret = 0 /\ last = "none" /\ redirect = 0 /\ orig = <<>> /\ nturn = 0
    /\ validated = 0 /\ readEnd = 0 /\ wrote = FALSE /\ entry = <<>>

InitCodec ==
    /\ host \in Hosts
    /\ clock \in ClockSamples
    /\ cpc = "start"
    /\ rx_utns = Zero64 /\ tx_utns = Zero64
    /\ rx_ts = NoTs /\ tx_ts = NoTs
    /\ rx_res = Zero64 /\ tx_res = Zero64
    /\ FrameOff

\* the reflector stamps the receive time (t2) on arrival
StampRx ==
    /\ cpc = "start"
    /\ rx_utns' = clock
    /\ rx_ts' = timestamp(host, clock)
    /\ cpc' = "rx"
    /\ UNCHANGED <<host, clock, tx_utns, tx_ts, rx_res, tx_res, frameVars>>

\* time passes between the two stamps
Tick ==
    /\ cpc = "rx"
    /\ \E d \in TickDeltas :
          /\ clock' = Add(clock, U64(d))
          /\ Representable(clock')
    /\ cpc' = "wait"
    /\ UNCHANGED <<host, rx_utns, rx_ts, tx_utns, tx_ts, rx_res, tx_res, frameVars>>

\* the reflector stamps the transmit time (t3) before sending
StampTx ==
    /\ cpc = "wait"
    /\ tx_utns' = clock
    /\ tx_ts' = timestamp(host, clock)
    /\ cpc' = "tx"
    /\ UNCHANGED <<host, clock, rx_utns, rx_ts, rx_res, tx_res, frameVars>>

\* the stamps are decoded again
Decode ==
    /\ cpc = "tx"
    /\ rx_res' = untimestamp(host, rx_ts)
    /\ tx_res' = untimestamp(host, tx_ts)
    /\ cpc' = "done"
    /\ UNCHANGED <<host, clock, rx_utns, rx_ts, tx_utns, tx_ts, frameVars>>

NextCodec == StampRx \/ Tick \/ StampTx \/ Decode

SpecCodec == InitCodec /\ [][NextCodec]_vars

\* every 64-bit value is 8 digits, every field of struct ntp_ts 4 bytes
CodecTypeOK ==
    /\ Len(clock) = 8 /\ Len(rx_res) = 8 /\ Len(tx_res) = 8
    /\ Len(rx_ts.ntp_secs) = 4 /\ Len(rx_ts.ntp_fracs) = 4
    /\ \A i \in 1..8 : clock[i] \in 0..255 /\ rx_res[i] \in 0..255 /\ tx_res[i] \in 0..255

-----------------------------------------------------------------------------
(* Frames.  Layout: struct ethhdr (14), struct iphdr (20), struct udphdr   *)
(* (8), payload.  Offsets are counted from data; pkt[off + 1] is the byte  *)
(* at offset off.                                                          *)

SizeofEthhdr == 14
SizeofIphdr == 20
SizeofUdphdr == 8
Off_h_dest == 0
Off_h_source == 6
Off_ip_protocol == 9
Off_ip_check == 10
Off_ip_saddr == 12
Off_ip_daddr == 16
Off_udp_source == 0
Off_udp_dest == 2
ETH_P_IP == 2048
IPPROTO_UDP == 17
TWAMP_PORT == 862
TCX_PASS == 0
TC_ACT_REDIRECT == 7

\* ---- bounds of the frame specification ----
MaxLen == 44
MaxTurns == 2

Max(a, b) == IF a > b THEN a ELSE b
BE16(x) == <<x \div 256, x % 256>>

\* one's-complement sum of the big-endian 16-bit words of b (odd tail zero-padded)
RECURSIVE Sum16(_, _)
Sum16(b, i) ==
    IF i > Len(b) THEN 0
    ELSE b[i] * 256 + (IF i + 1 <= Len(b) THEN b[i + 1] ELSE 0) + Sum16(b, i + 2)
Fold16(x) ==
    LET y == (x % 65536) + (x \div 65536)
    IN  (y % 65536) + (y \div 65536)
Csum(b) == 65535 - Fold16(Sum16(b, 1))

\* what the receiver verifies: the header, checksum included, sums to 0xffff
IpHeader(f) == SubSeq(f, SizeofEthhdr + 1, SizeofEthhdr + SizeofIphdr)
IpCsumOK(f) == Fold16(Sum16(IpHeader(f), 1)) = 65535
UdpSegment(f) == SubSeq(f, SizeofEthhdr + SizeofIphdr + 1, Len(f))
PseudoHeader(f) ==
    SubSeq(f, SizeofEthhdr + Off_ip_saddr + 1, SizeofEthhdr + Off_ip_daddr + 4)
    \o <<0, f[SizeofEthhdr + Off_ip_protocol + 1]>> \o BE16(Len(UdpSegment(f)))
\* the pseudo-header goes last so that an odd segment is padded at its own end
UdpCsumOK(f) == Fold16(Sum16(UdpSegment(f), 1) + Sum16(PseudoHeader(f), 1)) = 65535

MacA == <<170, 0, 0, 0, 0, 1>>
MacB == <<187, 0, 0, 0, 0, 2>>
Ip1 == <<10, 0, 0, 1>>
Ip2 == <<10, 0, 0, 2>>
Ip3 == <<192, 168, 255, 254>>
Payload(n) == [i \in 1..n |-> IF i = 4 THEN 7 ELSE (i * 37) % 256]

\* a well-formed Ethernet/IPv4/L4 frame with n payload bytes and valid checksums
MkFrame(smac, dmac, sip, dip, proto, sport, dport, n) ==
    LET eth  == dmac \o smac \o BE16(ETH_P_IP)
        ip0  == <<69, 0>> \o BE16(SizeofIphdr + SizeofUdphdr + n) \o <<0, 7, 64, 0>>
                \o <<64, proto>>
        ip   == ip0 \o BE16(Csum(ip0 \o sip \o dip)) \o sip \o dip
        udp0 == BE16(sport) \o BE16(dport) \o BE16(SizeofUdphdr + n)
        pseudo == sip \o dip \o <<0, proto>> \o BE16(SizeofUdphdr + n)
        c    == 65535 - Fold16(Sum16(udp0 \o <<0, 0>> \o Payload(n), 1) + Sum16(pseudo, 1))
    IN  eth \o ip \o udp0 \o BE16(IF c = 0 THEN 65535 ELSE c) \o Payload(n)

HdrLen == SizeofEthhdr + SizeofIphdr + SizeofUdphdr

CodecOff ==
    /\ clock = Zero64 /\ cpc = "off" /\ rx_utns = Zero64 /\ tx_utns = Zero64
    /\ rx_ts = NoTs /\ tx_ts = NoTs /\ rx_res = Zero64 /\ tx_res = Zero64

\* a frame arrives: well-formed, or cut short at any length
Init ==
    /\ host \in Hosts
    /\ CodecOff
    /\ \E len \in 0..MaxLen,
          macs \in {<<MacA, MacB>>, <<MacB, MacA>>, <<MacA, MacA>>},
          ips \in {<<Ip1, Ip2>>, <<Ip3, Ip1>>, <<Ip1, Ip1>>},
          proto \in {IPPROTO_UDP, 6},
          sport \in {TWAMP_PORT, 5000}, dport \in {TWAMP_PORT, 5000} :
          LET full == MkFrame(macs[1], macs[2], ips[1], ips[2], proto, sport, dport,
                              Max(len - HdrLen, 0))
          IN  pkt = SubSeq(full, 1, len)
    /\ skb_protocol \in {BE16(ETH_P_IP), BE16(34525)}
    /\ ifindex \in {1, 2}
    /\ pc = "idle" /\ data_end = 0 /\ iph_proto = 0
    /\ src_ip = <<0, 0, 0, 0>> /\ dest_ip = <<0, 0, 0, 0>>
    /\ ret = 0 /\ last = "none" /\ redirect = 0
    /\ orig = pkt /\ nturn = 0
    /\ validated = 0 /\ readEnd = 0 /\ wrote = FALSE /\ entry = pkt

-----------------------------------------------------------------------------
(* Frame access.                                                           *)

\* values an out-of-bounds read may produce
Garbage == {0, IPPROTO_UDP, 94}

\* a direct read of n bytes at offset off; g stands for what lies past the frame
ReadBytes(f, off, n, g) ==
    [i \in 1..n |-> IF off + i <= Len(f) THEN f[off + i] ELSE g]
InFrame(f, off, n) == off + n <= Len(f)
GarbageFor(f, off, n) == IF InFrame(f, off, n) THEN {0} ELSE Garbage

\* bpf_skb_store_bytes(skb, off, from, len, 0): fails, writing nothing, past the frame
bpf_skb_store_bytes(f, off, from) ==
    IF off + Len(from) > Len(f) THEN f
    ELSE [i \in 1..Len(f) |->
            IF i > off /\ i <= off + Len(from) THEN from[i - off] ELSE f[i]]

\* bpf_skb_load_bytes(skb, off, to, len): zeroes the buffer when it fails
bpf_skb_load_bytes(f, off, n) ==
    IF off + n > Len(f) THEN [i \in 1..n |-> 0] ELSE SubSeq(f, off + 1, off + n)

-----------------------------------------------------------------------------
(* for_me(skb): the classifier.  One action per statement that tests or    *)
(* reads; pc names the source line about to run.                           *)

CallReset ==
    /\ data_end' = Len(pkt)
    /\ validated' = 0 /\ readEnd' = 0 /\ wrote' = FALSE /\ entry' = pkt
    /\ last' = "none"

Call_for_me ==
    /\ pc = "idle"
    /\ pc' = "fm_65"
    /\ CallReset
    /\ UNCHANGED <<host, codecVars, pkt, skb_protocol, ifindex, iph_proto, src_ip,
                   dest_ip, ret, redirect, orig, nturn>>

Return_for_me(r) ==
    /\ pc' = "idle" /\ ret' = r /\ last' = "for_me"

\* line 65: skb->protocol != bpf_htons(ETH_P_IP)
NotIp(h, proto_raw) == Load16(h, proto_raw) # bpf_htons(h, ETH_P_IP)

\* a check that validates the link header only
IpHdrEnd_EthOnly == SizeofEthhdr

\* line 72: data + sizeof(struct iphdr) + sizeof(struct ethhdr) > data_end
\* (offsets are counted from data, so the left-hand side is IpHdrEnd)
IpHdrEnd == SizeofIphdr + SizeofEthhdr

\* a classifier that lets every IPv4 protocol through
NotUdp_Never(proto) == FALSE

\* line 74: iph->protocol != IPPROTO_UDP
NotUdp(proto) == proto # IPPROTO_UDP

\* line 77: data + sizeof(iphdr) + sizeof(udphdr) + sizeof(ethhdr) > data_end
UdpHdrEnd == SizeofIphdr + SizeofUdphdr + SizeofEthhdr

\* a port test that rejects only when both ports differ from 862
PortReject_Neither(h, source_raw, dest_raw) ==
    /\ Load16(h, dest_raw) # bpf_ntohs(h, TWAMP_PORT)
    /\ Load16(h, source_raw) # bpf_ntohs(h, TWAMP_PORT)

\* line 80: udph->dest != bpf_ntohs(862) || udph->source != bpf_ntohs(862)
PortReject(h, source_raw, dest_raw) ==
    \/ Load16(h, dest_raw) # bpf_ntohs(h, TWAMP_PORT)
    \/ Load16(h, source_raw) # bpf_ntohs(h, TWAMP_PORT)

fm_65 ==
    /\ pc = "fm_65"
    /\ IF NotIp(host, skb_protocol)
       THEN Return_for_me(TCX_PASS)
       ELSE pc' = "fm_72" /\ UNCHANGED <<ret, last>>
    /\ UNCHANGED <<host, codecVars, pkt, skb_protocol, ifindex, data_end, iph_proto,
                   src_ip, dest_ip, redirect, orig, nturn, validated, readEnd, wrote,
                   entry>>

fm_72 ==
    /\ pc = "fm_72"
    /\ IF IpHdrEnd > data_end
       THEN Return_for_me(TCX_PASS) /\ UNCHANGED validated
       ELSE /\ pc' = "fm_74"
            /\ validated' = Max(validated, IpHdrEnd)
            /\ UNCHANGED <<ret, last>>
    /\ UNCHANGED <<host, codecVars, pkt, skb_protocol, ifindex, data_end, iph_proto,
                   src_ip, dest_ip, redirect, orig, nturn, readEnd, wrote, entry>>

fm_74 ==
    /\ pc = "fm_74"
    /\ \E g \in GarbageFor(pkt, SizeofEthhdr + Off_ip_protocol, 1) :
          iph_proto' = ReadBytes(pkt, SizeofEthhdr + Off_ip_protocol, 1, g)[1]
    /\ readEnd' = Max(readEnd, SizeofEthhdr + Off_ip_protocol + 1)
    /\ IF NotUdp(iph_proto')
       THEN Return_for_me(TCX_PASS)
       ELSE pc' = "fm_77" /\ UNCHANGED <<ret, last>>
    /\ UNCHANGED <<host, codecVars, pkt, skb_protocol, ifindex, data_end, src_ip,
                   dest_ip, redirect, orig, nturn, validated, wrote, entry>>

fm_77 ==
    /\ pc = "fm_77"
    /\ IF UdpHdrEnd > data_end
       THEN Return_for_me(TCX_PASS) /\ UNCHANGED validated
       ELSE /\ pc' = "fm_80"
            /\ validated' = Max(validated, UdpHdrEnd)
            /\ UNCHANGED <<ret, last>>
    /\ UNCHANGED <<host, codecVars, pkt, skb_protocol, ifindex, data_end, iph_proto,
                   src_ip, dest_ip, redirect, orig, nturn, readEnd, wrote, entry>>

fm_80 ==
    /\ pc = "fm_80"
    /\ readEnd' = Max(readEnd, SizeofEthhdr + SizeofIphdr + Off_udp_dest + 2)
    /\ \E g \in GarbageFor(pkt, SizeofEthhdr + SizeofIphdr, 4) :
          LET udp_source == ReadBytes(pkt, SizeofEthhdr + SizeofIphdr + Off_udp_source, 2, g)
              udp_dest   == ReadBytes(pkt, SizeofEthhdr + SizeofIphdr + Off_udp_dest, 2, g)
          IN  IF PortReject(host, udp_source, udp_dest)
              THEN Return_for_me(TCX_PASS)
              ELSE Return_for_me(1)
    /\ UNCHANGED <<host, codecVars, pkt, skb_protocol, ifindex, data_end, iph_proto,
                   src_ip, dest_ip, redirect, orig, nturn, validated, wrote, entry>>

-----------------------------------------------------------------------------
(* pkt_turnaround(skb): swap the addresses and redirect.                   *)

Call_pkt_turnaround ==
    /\ pc = "idle"
    /\ nturn < MaxTurns
    /\ pc' = "pt_90"
    /\ CallReset
    /\ UNCHANGED <<host, codecVars, pkt, skb_protocol, ifindex, iph_proto, src_ip,
                   dest_ip, ret, redirect, orig, nturn>>

Return_turn(r) ==
    /\ pc' = "idle" /\ ret' = r /\ last' = "turn"

\* line 90: data + sizeof(struct ethhdr) + sizeof(struct iphdr) > data_end
TurnHdrEnd == SizeofEthhdr + SizeofIphdr

\* a second check that asks for more than the first one established
MacHdrEnd_Udp == UdpHdrEnd

\* line 100: data + sizeof(struct ethhdr) > data_end
MacHdrEnd == SizeofEthhdr

\* an IP "swap" that re-reads the source after overwriting it: both become dest
StoreIps_Clobber(h, f, sip, dip) ==
    bpf_skb_store_bytes(
        bpf_skb_store_bytes(f, SizeofEthhdr + Off_ip_saddr, Store(h, dip)),
        SizeofEthhdr + Off_ip_daddr, Store(h, dip))

\* an IP swap whose offsets leave out sizeof(struct ethhdr)
StoreIps_NoEth(h, f, sip, dip) ==
    bpf_skb_store_bytes(
        bpf_skb_store_bytes(f, Off_ip_saddr, Store(h, dip)),
        Off_ip_daddr, Store(h, sip))

\* lines 96-97: the two stores of the IP swap; sip/dip are the locals src_ip, dest_ip
StoreIps(h, f, sip, dip) ==
    bpf_skb_store_bytes(
        bpf_skb_store_bytes(f, SizeofEthhdr + Off_ip_saddr, Store(h, dip)),
        SizeofEthhdr + Off_ip_daddr, Store(h, sip))

\* a MAC swap that loads the source only after the destination was stored over it
SwapMacs_Sequential(f) ==
    LET dest_mac == bpf_skb_load_bytes(f, Off_h_dest, 6)
        f1       == bpf_skb_store_bytes(f, Off_h_source, dest_mac)
        src_mac  == bpf_skb_load_bytes(f1, Off_h_source, 6)
    IN  bpf_skb_store_bytes(f1, Off_h_dest, src_mac)

\* lines 102-106: load both MAC addresses, then store each in the other's place
SwapMacs(f) ==
    LET src_mac  == bpf_skb_load_bytes(f, Off_h_source, 6)
        dest_mac == bpf_skb_load_bytes(f, Off_h_dest, 6)
    IN  bpf_skb_store_bytes(bpf_skb_store_bytes(f, Off_h_source, dest_mac),
                            Off_h_dest, src_mac)

\* line 108: bpf_redirect(skb->ifindex, 0) records the interface, returns TC_ACT_REDIRECT
bpf_redirect(idx) == [ret |-> TC_ACT_REDIRECT, ifindex |-> idx]

pt_90 ==
    /\ pc = "pt_90"
    /\ IF TurnHdrEnd > data_end
       THEN Return_turn(TCX_PASS) /\ UNCHANGED validated
       ELSE /\ pc' = "pt_94"
            /\ validated' = Max(validated, TurnHdrEnd)
            /\ UNCHANGED <<ret, last>>
    /\ UNCHANGED <<host, codecVars, pkt, skb_protocol, ifindex, data_end, iph_proto,
                   src_ip, dest_ip, redirect, orig, nturn, readEnd, wrote, entry>>

\* lines 94-97
pt_94 ==
    /\ pc = "pt_94"
    /\ \E g \in GarbageFor(pkt, SizeofEthhdr + Off_ip_saddr, 8) :
          /\ src_ip' = Load(host, ReadBytes(pkt, SizeofEthhdr + Off_ip_saddr, 4, g))
          /\ dest_ip' = Load(host, ReadBytes(pkt, SizeofEthhdr + Off_ip_daddr, 4, g))
    /\ readEnd' = Max(readEnd, SizeofEthhdr + Off_ip_daddr + 4)
    /\ pkt' = StoreIps(host, pkt, src_ip', dest_ip')
    /\ wrote' = (wrote \/ InFrame(pkt, SizeofEthhdr + Off_ip_saddr, 4)
                       \/ InFrame(pkt, SizeofEthhdr + Off_ip_daddr, 4))
    /\ pc' = "pt_100"
    /\ UNCHANGED <<host, codecVars, skb_protocol, ifindex, data_end, iph_proto, ret,
                   last, redirect, orig, nturn, validated, entry>>

\* line 100; data and data_end still hold the values read at entry
pt_100 ==
    /\ pc = "pt_100"
    /\ IF MacHdrEnd > data_end
       THEN Return_turn(TCX_PASS) /\ UNCHANGED validated
       ELSE /\ pc' = "pt_103"
            /\ validated' = Max(validated, MacHdrEnd)
            /\ UNCHANGED <<ret, last>>
    /\ UNCHANGED <<host, codecVars, pkt, skb_protocol, ifindex, data_end, iph_proto,
                   src_ip, dest_ip, redirect, orig, nturn, readEnd, wrote, entry>>

\* lines 102-108
pt_103 ==
    /\ pc = "pt_103"
    /\ pkt' = SwapMacs(pkt)
    /\ wrote' = (wrote \/ InFrame(pkt, Off_h_dest, 6) \/ InFrame(pkt, Off_h_source, 6))
    /\ Return_turn(bpf_redirect(ifindex).ret)
    /\ redirect' = bpf_redirect(ifindex).ifindex
    /\ nturn' = nturn + 1
    /\ UNCHANGED <<host, codecVars, skb_protocol, ifindex, data_end, iph_proto, src_ip,
                   dest_ip, orig, validated, readEnd, entry>>

Next ==
    \/ Call_for_me \/ fm_65 \/ fm_72 \/ fm_74 \/ fm_77 \/ fm_80
    \/ Call_pkt_turnaround \/ pt_90 \/ pt_94 \/ pt_100 \/ pt_103

Spec == Init /\ [][Next]_vars

-----------------------------------------------------------------------------
(* Properties of the frame specification (Spec).                           *)

ForMeDone == pc = "idle" /\ last = "for_me"
TurnDone == pc = "idle" /\ last = "turn"

SkbIsIp == skb_protocol = BE16(ETH_P_IP)
IpProtoOf(f) == f[SizeofEthhdr + Off_ip_protocol + 1]
SrcPortOf(f) == f[SizeofEthhdr + SizeofIphdr + 1] * 256 + f[SizeofEthhdr + SizeofIphdr + 2]
DstPortOf(f) == f[SizeofEthhdr + SizeofIphdr + 3] * 256 + f[SizeofEthhdr + SizeofIphdr + 4]
SrcMacOf(f) == SubSeq(f, 7, 12)
DstMacOf(f) == SubSeq(f, 1, 6)
SrcIpOf(f) == SubSeq(f, 27, 30)
DstIpOf(f) == SubSeq(f, 31, 34)

\* the frame gets as far as the port test of for_me
ReachesPortStep(f) ==
    /\ SkbIsIp
    /\ Len(f) >= HdrLen
    /\ IpProtoOf(f) = IPPROTO_UDP

\* C2 as claimed: a frame that passes the IPv4, length, UDP and transport-length
\* checks is rejected at the port step only if neither port equals 862.
C2_RejectOnlyIfNeitherPort ==
    (ForMeDone /\ ReachesPortStep(pkt) /\ ret = TCX_PASS)
        => (SrcPortOf(pkt) # TWAMP_PORT /\ DstPortOf(pkt) # TWAMP_PORT)

\* C2 amended: such a frame is rejected at the port step exactly when at least
\* one of its two ports differs from 862; it is accepted (1) only when both
\* source and destination port equal 862.
C2_RejectUnlessBothPorts ==
    (ForMeDone /\ ReachesPortStep(pkt))
        => /\ (ret = TCX_PASS) <=> (SrcPortOf(pkt) # TWAMP_PORT \/ DstPortOf(pkt) # TWAMP_PORT)
           /\ (ret = 1) <=> (SrcPortOf(pkt) = TWAMP_PORT /\ DstPortOf(pkt) = TWAMP_PORT)

C2_Witness ==
    /\ ForMeDone /\ ReachesPortStep(pkt)
    /\ SrcPortOf(pkt) = TWAMP_PORT /\ DstPortOf(pkt) = 5000
    /\ ret = TCX_PASS

\* the frame e with both address pairs exchanged and nothing else touched
Turned(e) ==
    [i \in 1..Len(e) |->
        IF i \in 1..6 THEN e[i + 6]
        ELSE IF i \in 7..12 THEN e[i - 6]
        ELSE IF i \in 27..30 THEN e[i + 4]
        ELSE IF i \in 31..34 THEN e[i - 4]
        ELSE e[i]]

\* C3: for every frame holding at least Ethernet + IPv4 headers, pkt_turnaround
\* exchanges the two MAC addresses and the two IPv4 addresses, leaves every
\* other byte and the length unchanged, and returns a redirect to skb->ifindex.
C3_TurnaroundEffect ==
    (TurnDone /\ Len(entry) >= SizeofEthhdr + SizeofIphdr)
        => /\ pkt = Turned(entry)
           /\ Len(pkt) = Len(entry)
           /\ \A i \in 1..Len(pkt) : (i \notin 1..12 /\ i \notin 27..34) => pkt[i] = entry[i]
           /\ ret = TC_ACT_REDIRECT
           /\ redirect = ifindex

C3_Witness ==
    /\ TurnDone /\ Len(entry) > HdrLen
    /\ SrcMacOf(entry) = MacA /\ DstMacOf(entry) = MacB
    /\ SrcIpOf(entry) = Ip1 /\ DstIpOf(entry) = Ip2
    /\ SrcMacOf(pkt) = MacB /\ DstMacOf(pkt) = MacA
    /\ SrcIpOf(pkt) = Ip2 /\ DstIpOf(pkt) = Ip1
    /\ SrcPortOf(pkt) = TWAMP_PORT /\ DstPortOf(pkt) = TWAMP_PORT
    /\ ret = TC_ACT_REDIRECT /\ redirect = ifindex

\* C4: two pkt_turnaround calls in succession give back the original frame,
\* byte for byte, also when source and destination addresses are equal.
C4_TurnaroundInvolution ==
    (TurnDone /\ nturn = 2) => pkt = orig

C4_Witness ==
    /\ TurnDone /\ nturn = 2 /\ pkt = orig
    /\ Len(orig) >= SizeofEthhdr + SizeofIphdr
    /\ SrcMacOf(orig) # DstMacOf(orig) /\ SrcIpOf(orig) # DstIpOf(orig)

\* C5: a frame shorter than Ethernet + IPv4 headers makes pkt_turnaround return
\* TCX_PASS with the buffer unchanged; and no pkt_turnaround call returns
\* TCX_PASS after having written any byte of the frame.
C5_TurnaroundSafety ==
    /\ (TurnDone /\ Len(entry) < SizeofEthhdr + SizeofIphdr)
           => (ret = TCX_PASS /\ pkt = entry /\ redirect = 0)
    /\ (TurnDone /\ ret = TCX_PASS) => (~wrote /\ pkt = entry)

C5_Witness ==
    /\ TurnDone /\ Len(entry) = SizeofEthhdr + SizeofIphdr - 1
    /\ ret = TCX_PASS /\ pkt = entry /\ ~wrote

\* C6: for_me returns 0 for every frame shorter than Ethernet + IPv4 headers,
\* for every non-IPv4 frame, for every IPv4 frame that is not UDP, for every
\* UDP frame shorter than Ethernet + IPv4 + UDP headers and for every frame
\* with neither port 862; it returns 1 for a minimal UDP frame 862 -> 862;
\* the result is always 0 or 1.
C6_ClassifierFailsClosed ==
    ForMeDone =>
        /\ ret \in {0, 1}
        /\ Len(pkt) < SizeofEthhdr + SizeofIphdr => ret = 0
        /\ ~SkbIsIp => ret = 0
        /\ (Len(pkt) >= SizeofEthhdr + SizeofIphdr /\ IpProtoOf(pkt) # IPPROTO_UDP) => ret = 0
        /\ Len(pkt) < HdrLen => ret = 0
        /\ (Len(pkt) >= HdrLen /\ SrcPortOf(pkt) # TWAMP_PORT /\ DstPortOf(pkt) # TWAMP_PORT)
               => ret = 0
        /\ (SkbIsIp /\ Len(pkt) = HdrLen /\ IpProtoOf(pkt) = IPPROTO_UDP
              /\ SrcPortOf(pkt) = TWAMP_PORT /\ DstPortOf(pkt) = TWAMP_PORT) => ret = 1

C6_Witness ==
    /\ ForMeDone /\ ret = 1 /\ Len(pkt) = HdrLen
    /\ SrcPortOf(pkt) = TWAMP_PORT /\ DstPortOf(pkt) = TWAMP_PORT

\* C8: in every execution of for_me and pkt_turnaround, whatever the frame
\* length, every direct read of a frame field lies below the length a check on
\* the same path has established, which in turn lies within the frame.
C8_ReadsAreChecked ==
    /\ readEnd <= validated
    /\ validated <= Len(pkt)

\* a frame that ends inside the UDP header: the protocol byte was read, the ports not
C8_Witness ==
    /\ ForMeDone /\ Len(pkt) = HdrLen - 2
    /\ readEnd = SizeofEthhdr + Off_ip_protocol + 1
    /\ validated = SizeofEthhdr + SizeofIphdr
    /\ ret = TCX_PASS

\* C10: pkt_turnaround recomputes no checksum, and a frame whose IPv4 header
\* checksum (and UDP checksum over the pseudo-header) verified before the call
\* still verifies after the address swap.
C10_ChecksumsPreserved ==
    (TurnDone /\ ret = TC_ACT_REDIRECT) =>
        /\ IpCsumOK(entry) => IpCsumOK(pkt)
        /\ (Len(entry) >= HdrLen /\ IpProtoOf(entry) = IPPROTO_UDP /\ UdpCsumOK(entry))
               => UdpCsumOK(pkt)
        /\ SubSeq(pkt, SizeofEthhdr + Off_ip_check + 1, SizeofEthhdr + Off_ip_check + 2)
             = SubSeq(entry, SizeofEthhdr + Off_ip_check + 1, SizeofEthhdr + Off_ip_check + 2)

C10_Witness ==
    /\ TurnDone /\ ret = TC_ACT_REDIRECT
    /\ Len(entry) > HdrLen /\ IpProtoOf(entry) = IPPROTO_UDP
    /\ SrcIpOf(entry) # DstIpOf(entry) /\ pkt # entry
    /\ IpCsumOK(entry) /\ UdpCsumOK(entry)
    /\ IpCsumOK(pkt) /\ UdpCsumOK(pkt)

-----------------------------------------------------------------------------
(* Properties of the codec specification (SpecCodec).                      *)

AbsDiff(a, b) == IF Less(a, b) THEN Sub(b, a) ELSE Sub(a, b)
AtMost232(d) == SubSeq(d, 2, 8) = <<0, 0, 0, 0, 0, 0, 0>> /\ d[1] <= 232

\* the sub-second remainder utns % 1000000000 as an integer
RemOf(utns) == ToNat(ModNs(utns))

\* the 32-bit number whose big-endian bytes are raw, widened to 64 bits
BigEndianValue(raw) == Widen64(Reverse(raw))

RoundTrip(utns, res) ==
    /\ AtMost232(AbsDiff(res, utns))
    /\ RemOf(utns) % 232 = 0 => res = utns

\* C1 as claimed: for every representable t, untimestamp(timestamp(t)) differs
\* from t by at most 232 ns, and equals t when t mod 1e9 is a multiple of 232;
\* this for every sub-second remainder in [0, 1e9).
C1_RoundTripWithin232 ==
    cpc = "done" => (RoundTrip(rx_utns, rx_res) /\ RoundTrip(tx_utns, tx_res))

\* C7 as claimed: timestamp(t) stores floor(t/1e9) + 2208988800 and the
\* fraction floor((t mod 1e9) * 1000 / 232) as 32-bit fields whose raw bytes are
\* big-endian, and untimestamp of those bytes gives the same nanosecond value
\* on a little-endian and on a big-endian host.
C7_FieldsBigEndian ==
    cpc \in {"rx", "wait", "tx", "done"} =>
        /\ BigEndianValue(rx_ts.ntp_secs) = ts_ntps(rx_utns)
        /\ BigEndianValue(rx_ts.ntp_fracs) = ts_ntpf(rx_utns)
        /\ untimestamp("LE", rx_ts) = untimestamp("BE", rx_ts)

\* the 64-bit wire value seconds * 2^32 + fraction, as digits
WireValue(ts) == Reverse(ts.ntp_secs \o ts.ntp_fracs)

\* C9 as claimed: for clock readings t1 <= t2 (a receive stamp followed by a
\* transmit stamp), the wire timestamp of t1 is at most that of t2;
\* equivalently the fraction is stored in its 32-bit field without truncation.
C9_EncodingKeepsOrder ==
    cpc \in {"tx", "done"} =>
        /\ Leq(rx_utns, tx_utns) => Leq(WireValue(rx_ts), WireValue(tx_ts))
        /\ BigEndianValue(tx_ts.ntp_fracs) = ts_ntpf(tx_utns)

\* What does hold of the codec: the stored bytes are the big-endian low 32 bits
\* of both values on either host, and below the remainder at which the
\* fraction reaches 2^32 the round trip loses at most one nanosecond.
FractionFits(utns) == SubSeq(ts_ntpf(utns), 5, 8) = <<0, 0, 0, 0>>
CodecLowBitsBigEndian ==
    cpc \in {"rx", "wait", "tx", "done"} =>
        /\ Reverse(rx_ts.ntp_secs) = Trunc32(ts_ntps(rx_utns))
        /\ Reverse(rx_ts.ntp_fracs) = Trunc32(ts_ntpf(rx_utns))
        /\ untimestamp("LE", rx_ts) = untimestamp("BE", rx_ts)
CodecRoundTripWhenFractionFits ==
    (cpc = "done" /\ FractionFits(rx_utns)) =>
        /\ Leq(rx_res, rx_utns)
        /\ Leq(AbsDiff(rx_res, rx_utns), U64(1))
        /\ RemOf(rx_utns) % 29 = 0 => rx_res = rx_utns
FractionOverflowReached == cpc = "done" /\ ~FractionFits(rx_utns)

====
